---------------------------- MODULE Spec2Model ----------------------------
(***************************************************************************)
(* Merkle commitment subsystem of the fraud-scoring service                *)
(* (ml-service/utils/merkle.py) and the producer that publishes a root     *)
(* for a prediction (ml-service/api/inference.py).                         *)
(*                                                                         *)
(* Strings are modelled as sequences of tokens, and string concatenation   *)
(* as sequence concatenation.  A token is a pair <<tag, payload>>:         *)
(*   <<"str", s>>     the literal characters s                             *)
(*   <<"int", n>>     the decimal rendering of the integer n               *)
(*   <<"dec4", n>>    the rendering of n / 10^4 with four decimals         *)
(*   <<"sha256", t>>  the 64 hex characters of the SHA-256 digest of t     *)
(* SHA-256 is modelled as collision-free: the digest token carries the     *)
(* hashed text, so two digests are equal exactly when their inputs are.    *)
(***************************************************************************)
EXTENDS Integers, Sequences, FiniteSets, TLC

VARIABLES self, op, arg, ret,
          ready, connected, pc, request, locals, calls, response

\* the MerkleTree object at hand and the call pending on it
merkle == <<self, op, arg, ret>>

\* the web service: its two collaborators and the request being handled
api == <<ready, connected, pc, request, locals, calls, response>>

vars == <<self, op, arg, ret, ready, connected, pc, request, locals, calls,
          response>>

(***************************************************************************)
(* Bounds of the model.                                                    *)
(***************************************************************************)
\* largest number of leaves a tree is constructed from
MaxLeaves == 4
\* largest length of a hand-made (not generated) proof given to verify_proof
MaxProofLen == 2
\* largest number of traffic instances in one /predict/batch request
MaxBatch == 2

(***************************************************************************)
(* Text and values.                                                        *)
(***************************************************************************)
Str(s) == <<"str", s>>

IntText(n) == <<"int", n>>

\* Python's None, a value different from every string
None == << <<"None", "">> >>

\* the empty string ''
EmptyStr == <<>>

\* a returned value / a raised exception
Ok(v) == [exc |-> "", val |-> v]

Raise(e) == [exc |-> e, val |-> None]

\* Python sequence indexing with a 0-based, non-negative index
At(seq, i) == seq[i + 1]

(***************************************************************************)
(* class MerkleTree                                                         *)
(***************************************************************************)
\* hashlib.sha256(data.encode()).hexdigest()
_hash(data) == << <<"sha256", data>> >>

\* _hash_pair putting a tag in front of the two digests before hashing
_hash_pair_Tagged(left, right) == _hash(<<Str("node:")>> \o left \o right)

\* combined = left + right; return self._hash(combined)
_hash_pair(left, right) == _hash(left \o right)

\* _build_tree's pass promoting the lone last node of an odd level unhashed
NextLevel_LoneUnhashed(current_level) ==
    [j \in 1..((Len(current_level) + 1) \div 2) |->
        LET i == 2 * (j - 1)
        IN  IF i + 1 < Len(current_level)
            THEN _hash_pair(At(current_level, i), At(current_level, i + 1))
            ELSE At(current_level, i)]

\* _build_tree's pass pairing the lone last node with the node before it
NextLevel_PairWithPrevious(current_level) ==
    [j \in 1..((Len(current_level) + 1) \div 2) |->
        LET i == 2 * (j - 1)
            left == At(current_level, i)
            right == IF i + 1 < Len(current_level)
                     THEN At(current_level, i + 1)
                     ELSE IF i > 0 THEN At(current_level, i - 1) ELSE left
        IN  _hash_pair(left, right)]

\* _build_tree's pass stopping before the lone last node of an odd level:
\* range(0, len(current_level) - 1, 2)
NextLevel_DropsLone(current_level) ==
    [j \in 1..(Len(current_level) \div 2) |->
        LET i == 2 * (j - 1)
        IN  _hash_pair(At(current_level, i), At(current_level, i + 1))]

\* one pass of the for loop of _build_tree over current_level:
\* i = 0, 2, 4, ...; right = current_level[i + 1] if it exists, else left
NextLevel(current_level) ==
    [j \in 1..((Len(current_level) + 1) \div 2) |->
        LET i == 2 * (j - 1)
            left == At(current_level, i)
            right == IF i + 1 < Len(current_level)
                     THEN At(current_level, i + 1)
                     ELSE left
        IN  _hash_pair(left, right)]

\* _build_tree's loop testing its condition after the pass, not before it
RECURSIVE BuildLevels_TestAfter(_, _)
BuildLevels_TestAfter(tree, current_level) ==
    LET next_level == NextLevel(current_level)
    IN  IF Len(next_level) > 1
        THEN BuildLevels_TestAfter(Append(tree, next_level), next_level)
        ELSE Append(tree, next_level)

\* the while loop of _build_tree: while len(current_level) > 1
RECURSIVE BuildLevels(_, _)
BuildLevels(tree, current_level) ==
    IF Len(current_level) > 1
    THEN LET next_level == NextLevel(current_level)
         IN  BuildLevels(Append(tree, next_level), next_level)
    ELSE tree

_build_tree(hashes) ==
    IF hashes = <<>> THEN <<>> ELSE BuildLevels(<<hashes>>, hashes)

\* the object no constructor has filled in
NoTree == [leaves |-> <<>>, leaf_hashes |-> <<>>, tree |-> <<>>, root |-> None]

\* MerkleTree.__init__ without the check for an empty list
MerkleTree_NoCheck(leaves) ==
    LET leaf_hashes == [k \in 1..Len(leaves) |-> _hash(leaves[k])]
        tree == _build_tree(leaf_hashes)
    IN  Ok([leaves |-> leaves,
            leaf_hashes |-> leaf_hashes,
            tree |-> tree,
            root |-> IF tree # <<>> THEN At(tree[Len(tree)], 0) ELSE None])

\* MerkleTree.__init__: the constructed object, or the exception raised
MerkleTree(leaves) ==
    IF leaves = <<>>
    THEN Raise("ValueError")
    ELSE LET leaf_hashes == [k \in 1..Len(leaves) |-> _hash(leaves[k])]
             tree == _build_tree(leaf_hashes)
         IN  Ok([leaves |-> leaves,
                 leaf_hashes |-> leaf_hashes,
                 tree |-> tree,
                 root |-> IF tree # <<>> THEN At(tree[Len(tree)], 0) ELSE None])

get_root(t) == t.root

\* get_proof's entry with the two side tags exchanged
ProofEntry_SwappedSides(current_level, current_index) ==
    IF current_index % 2 = 1
    THEN <<At(current_level, current_index - 1), "right">>
    ELSE IF current_index + 1 < Len(current_level)
         THEN <<At(current_level, current_index + 1), "left">>
         ELSE <<At(current_level, current_index), "left">>

\* get_proof's entry tagging the self-paired lone node 'left'
ProofEntry_LoneLeft(current_level, current_index) ==
    IF current_index % 2 = 1
    THEN <<At(current_level, current_index - 1), "left">>
    ELSE IF current_index + 1 < Len(current_level)
         THEN <<At(current_level, current_index + 1), "right">>
         ELSE <<At(current_level, current_index), "left">>

\* the entry get_proof appends at one level for the path index current_index
ProofEntry(current_level, current_index) ==
    IF current_index % 2 = 1
    THEN <<At(current_level, current_index - 1), "left">>
    ELSE IF current_index + 1 < Len(current_level)
         THEN <<At(current_level, current_index + 1), "right">>
         ELSE <<At(current_level, current_index), "right">>

\* get_proof's loop running over range(len(self.tree)), the root level included
RECURSIVE ProofLoop_IncludesRoot(_, _, _, _)
ProofLoop_IncludesRoot(t, level, current_index, proof) ==
    IF level < Len(t.tree)
    THEN ProofLoop_IncludesRoot(t, level + 1, current_index \div 2,
                   Append(proof, ProofEntry(At(t.tree, level), current_index)))
    ELSE proof

\* the for loop of get_proof: for level in range(len(self.tree) - 1)
RECURSIVE ProofLoop(_, _, _, _)
ProofLoop(t, level, current_index, proof) ==
    IF level < Len(t.tree) - 1
    THEN ProofLoop(t, level + 1, current_index \div 2,
                   Append(proof, ProofEntry(At(t.tree, level), current_index)))
    ELSE proof

\* get_proof with the upper bound tested by > where the code has >=: the
\* index len(leaf_hashes) passes the check and the level lookup raises
get_proof_OffByOne(t, leaf_index) ==
    IF leaf_index < 0 \/ leaf_index > Len(t.leaf_hashes)
    THEN Raise("ValueError")
    ELSE IF leaf_index = Len(t.leaf_hashes)
         THEN Raise("IndexError")
         ELSE Ok(ProofLoop(t, 0, leaf_index, <<>>))

get_proof(t, leaf_index) ==
    IF leaf_index < 0 \/ leaf_index >= Len(t.leaf_hashes)
    THEN Raise("ValueError")
    ELSE Ok(ProofLoop(t, 0, leaf_index, <<>>))

\* verify_proof's step pairing the path hash with itself on the right
ApplyElement_SelfPair(current_hash, element) ==
    IF element[2] = "left"
    THEN _hash_pair(element[1], current_hash)
    ELSE _hash_pair(current_hash, current_hash)

\* verify_proof's step with an elif for 'right': any other tag is skipped
ApplyElement_StrictSide(current_hash, element) ==
    IF element[2] = "left"
    THEN _hash_pair(element[1], current_hash)
    ELSE IF element[2] = "right"
         THEN _hash_pair(current_hash, element[1])
         ELSE current_hash

\* one step of the loop of verify_proof
ApplyElement(current_hash, element) ==
    IF element[2] = "left"
    THEN _hash_pair(element[1], current_hash)
    ELSE _hash_pair(current_hash, element[1])

\* the loop of verify_proof: for sibling_hash, position in proof
RECURSIVE ApplyProof(_, _)
ApplyProof(current_hash, proof) ==
    IF proof = <<>>
    THEN current_hash
    ELSE ApplyProof(ApplyElement(current_hash, Head(proof)), Tail(proof))

\* verify_proof starting from the tree's first leaf hash, not from leaf_data
verify_proof_OwnLeaf(t, leaf_data, proof, root) ==
    LET r == IF root = None THEN t.root ELSE root
    IN  Ok(ApplyProof(At(t.leaf_hashes, 0), proof) = r)

\* verify_proof with the final comparison inverted
verify_proof_Negated(t, leaf_data, proof, root) ==
    LET r == IF root = None THEN t.root ELSE root
    IN  Ok(ApplyProof(_hash(leaf_data), proof) # r)

verify_proof(t, leaf_data, proof, root) ==
    LET r == IF root = None THEN t.root ELSE root
    IN  Ok(ApplyProof(_hash(leaf_data), proof) = r)

\* get_proof_hex listing the hashes from the root down
get_proof_hex_Reversed(t, leaf_index) ==
    LET proof == get_proof(t, leaf_index)
    IN  IF proof.exc # ""
        THEN proof
        ELSE Ok([k \in 1..Len(proof.val) |->
                    proof.val[Len(proof.val) + 1 - k][1]])

get_proof_hex(t, leaf_index) ==
    LET proof == get_proof(t, leaf_index)
    IN  IF proof.exc # ""
        THEN proof
        ELSE Ok([k \in 1..Len(proof.val) |-> proof.val[k][1]])

to_dict(t) ==
    [leaves |-> t.leaves,
     leaf_hashes |-> t.leaf_hashes,
     root |-> t.root,
     tree_depth |-> Len(t.tree),
     leaf_count |-> Len(t.leaves)]

(***************************************************************************)
(* Fraud-proof helpers (merkle.py) and the producer (inference.py).        *)
(***************************************************************************)
\* a fraud score is a number of units of 10^-5; f"{fraud_score:.4f}" rounds
\* it to units of 10^-4, an exact tie going to the even neighbour
Format4(fraud_score) ==
    LET q == fraud_score \div 10
        r == fraud_score % 10
    IN  <<"dec4", IF r > 5 \/ (r = 5 /\ q % 2 = 1) THEN q + 1 ELSE q>>

\* f"fraud_score:{fraud_score:.4f}"
FraudScoreLeaf(fraud_score) == <<Str("fraud_score:"), Format4(fraud_score)>>

\* the leaves list of create_fraud_proof
FraudLeaves(f) ==
    << <<Str("campaign:"), IntText(f.campaign_id)>>,
       <<Str("publisher:"), Str(f.publisher_id)>>,
       <<Str("impressions:"), IntText(f.impressions)>>,
       <<Str("clicks:"), IntText(f.clicks)>>,
       FraudScoreLeaf(f.fraud_score),
       <<Str("timestamp:"), IntText(f.timestamp)>> >>

\* the leaf index create_fraud_proof proves
FraudScoreIndex == 4

\* create_fraud_proof asking for the proof of the last leaf, the timestamp
create_fraud_proof_LastLeaf(f) ==
    LET tree == MerkleTree(FraudLeaves(f))
    IN  IF tree.exc # ""
        THEN tree
        ELSE LET proof == get_proof_hex(tree.val, Len(FraudLeaves(f)) - 1)
             IN  IF proof.exc # ""
                 THEN proof
                 ELSE Ok(<<get_root(tree.val), proof.val>>)

create_fraud_proof(f) ==
    LET tree == MerkleTree(FraudLeaves(f))
    IN  IF tree.exc # ""
        THEN tree
        ELSE LET proof == get_proof_hex(tree.val, FraudScoreIndex)
             IN  IF proof.exc # ""
                 THEN proof
                 ELSE Ok(<<get_root(tree.val), proof.val>>)

\* dummy leaves, one per proof hash
DummyLeaves_ProofLen(proof) == [k \in 1..Len(proof) |-> EmptyStr]

\* dummy_leaves = [''] * (len(proof) + 1)
DummyLeaves(proof) == [k \in 1..(Len(proof) + 1) |-> EmptyStr]

\* proof_tuples alternating from 'right' at position 0
ProofTuples_StartRight(proof) ==
    [k \in 1..Len(proof) |->
        <<proof[k], IF (k - 1) % 2 = 0 THEN "right" ELSE "left">>]

\* proof_tuples tagged 'left' at every position
ProofTuples_AllLeft(proof) == [k \in 1..Len(proof) |-> <<proof[k], "left">>]

\* the proof_tuples list of verify_fraud_proof: enumerate(proof) counts from 0
ProofTuples(proof) ==
    [k \in 1..Len(proof) |->
        <<proof[k], IF (k - 1) % 2 = 0 THEN "left" ELSE "right">>]

verify_fraud_proof(fraud_score_leaf, proof, expected_root) ==
    LET tree == MerkleTree(DummyLeaves(proof))
    IN  IF tree.exc # ""
        THEN tree
        ELSE verify_proof(tree.val, fraud_score_leaf, ProofTuples(proof),
                          expected_root)

\* the leaves list of InferenceService._generate_merkle_proof
InferenceLeaves(data, fraud_score) ==
    << <<Str("campaign_id:"), IntText(data.campaign_id)>>,
       <<Str("publisher_id:"), Str(data.publisher_id)>>,
       <<Str("impressions:"), IntText(data.impressions)>>,
       <<Str("clicks:"), IntText(data.clicks)>>,
       FraudScoreLeaf(fraud_score) >>

_generate_merkle_proof(data, fraud_score) ==
    LET tree == MerkleTree(InferenceLeaves(data, fraud_score))
    IN  IF tree.exc # "" THEN tree ELSE Ok(get_root(tree.val))

(***************************************************************************)
(* Inputs.                                                                 *)
(***************************************************************************)
LeafTexts == { <<Str("x")>>, <<Str("y")>>, <<Str("z")>> }

LeafSeqs == UNION { [1..n -> LeafTexts] : n \in 0..MaxLeaves }

\* a single leaf whose text is the 128 hex characters of two leaf digests
DigestPairSeqs == { << _hash(a) \o _hash(b) >> : a, b \in LeafTexts }

Indexes == (0 - 2)..(MaxLeaves + 1)

Sides == {"left", "right", "up"}

\* scores in units of 10^-5: 0.87340, 0.87344, 0.87350 and the exact tie 0.03125
Scores == {87340, 87344, 87350, 3125}

FraudArgs ==
    [campaign_id : {42}, publisher_id : {"SP1ABC"}, impressions : {1000},
     clicks : {50}, fraud_score : Scores,
     timestamp : {1700000000, 1700000001}]

NoFraud == [campaign_id |-> 0, publisher_id |-> "", impressions |-> 0,
            clicks |-> 0, fraud_score |-> 0, timestamp |-> 0]

\* the arguments of a call; what a call does not take keeps its value here
NoArg == [leaves |-> <<>>, leaf_index |-> 0, leaf_data |-> EmptyStr,
          proof |-> <<>>, hexes |-> <<>>, root |-> None, fraud |-> NoFraud]

\* the proofs get_proof gives for the tree t
GeneratedProofs(t) == { get_proof(t, i).val : i \in 0..(Len(t.leaves) - 1) }

\* digests put in the place of a sibling hash
OtherDigests(t) == { _hash(x) : x \in LeafTexts } \cup { t.root }

\* p with the hash of one entry replaced
HashTampered(t, p) ==
    { [p EXCEPT ![k] = <<d, p[k][2]>>] : k \in 1..Len(p), d \in OtherDigests(t) }

\* p with the side of one entry replaced
SideTampered(p) ==
    { [p EXCEPT ![k] = <<p[k][1], s>>] : k \in 1..Len(p), s \in Sides }

\* hand-made proofs of up to MaxProofLen entries
HandMadeProofs ==
    UNION { [1..n -> { <<_hash(<<Str("x")>>), s>> : s \in Sides }]
            : n \in 0..MaxProofLen }

ProofInputs(t) ==
    GeneratedProofs(t)
    \cup UNION { HashTampered(t, p) \cup SideTampered(p) : p \in GeneratedProofs(t) }
    \cup HandMadeProofs

RootInputs(t) == { None, t.root, _hash(<<Str("x")>>) }

\* the text of the two level-0 digests that are hashed into the level-1 node
\* above leaf i: the pair's left digest followed by its right digest
PairText(t, i) ==
    LET j == 2 * (i \div 2)
        left == At(t.leaf_hashes, j)
        right == IF j + 1 < Len(t.leaf_hashes) THEN At(t.leaf_hashes, j + 1)
                 ELSE left
    IN  left \o right

\* what a caller holding the tree's digests can hand to verify_proof: the
\* digest pair above a leaf as leaf_data, with the proof of that leaf from its
\* second entry on, against the root omitted or given
DigestPairInputs(t) ==
    IF Len(t.leaves) < 2
    THEN {}
    ELSE { <<PairText(t, i), Tail(get_proof(t, i).val), r>> :
             i \in 0..(Len(t.leaves) - 1), r \in {None, t.root} }

\* the fraud_score leaf of a create_fraud_proof call, the proof get_proof gives
\* for it on that call's tree (hashes with their sides) and that call's root
FraudPathInputs ==
    { LET tree == MerkleTree(FraudLeaves(f)).val
      IN  <<FraudScoreLeaf(f.fraud_score),
            get_proof(tree, FraudScoreIndex).val,
            get_root(tree)>> : f \in FraudArgs }

\* the (leaf_data, proof, root) arguments of the calls of verify_proof
VerifyInputs(t) ==
    (LeafTexts \X ProofInputs(t) \X RootInputs(t))
    \cup DigestPairInputs(t)
    \cup FraudPathInputs

\* what a verifier is handed, as (leaf, proof, expected root): the output of
\* a create_fraud_proof call, whole or with the proof cut to nothing or to a
\* single hash, against a fraud_score leaf and that call's root or the plain
\* hash of the leaf; or a hex proof and the root of the tree t, against a leaf
FraudVerifyInputs(t) ==
    UNION { LET out == create_fraud_proof(f[1]).val
                leaf == FraudScoreLeaf(f[2])
            IN  { <<leaf, p, r>> :
                    p \in { out[2], <<>>, <<_hash(<<Str("x")>>)>> },
                    r \in { out[1], _hash(leaf) } }
            : f \in FraudArgs \X Scores }
    \cup { <<x, get_proof_hex(t, i).val, t.root>> :
             x \in LeafTexts, i \in 0..(Len(t.leaves) - 1) }

(***************************************************************************)
(* Operations.  A call is made when no call is pending (op = "none"); it   *)
(* records its arguments and its result; Return is the caller taking the   *)
(* result.                                                                 *)
(***************************************************************************)
Idle == op = "none"

\* t = MerkleTree(leaves): __init__ runs once, on a fresh object
Build ==
    /\ Idle
    /\ self = NoTree
    /\ \E leaves \in LeafSeqs \cup DigestPairSeqs :
          LET r == MerkleTree(leaves)
          IN  /\ op' = "MerkleTree"
              /\ arg' = [NoArg EXCEPT !.leaves = leaves]
              /\ self' = IF r.exc = "" THEN r.val ELSE NoTree
              /\ ret' = IF r.exc = "" THEN Ok(None) ELSE r
    /\ UNCHANGED api

GetRoot ==
    /\ Idle
    /\ self # NoTree
    /\ op' = "get_root"
    /\ arg' = NoArg
    /\ ret' = Ok(get_root(self))
    /\ UNCHANGED self
    /\ UNCHANGED api

\* get_proof appending, in place, a copy of the last node to every odd level
\* of self.tree before it walks the levels
GetProof_PadsInPlace ==
    /\ Idle
    /\ self # NoTree
    /\ \E leaf_index \in Indexes :
          /\ op' = "get_proof"
          /\ arg' = [NoArg EXCEPT !.leaf_index = leaf_index]
          /\ ret' = get_proof(self, leaf_index)
    /\ self' = [self EXCEPT !.tree =
                  [k \in 1..Len(self.tree) |->
                      LET level == self.tree[k]
                      IN  IF Len(level) > 1 /\ Len(level) % 2 = 1
                          THEN Append(level, level[Len(level)])
                          ELSE level]]
    /\ UNCHANGED api

GetProof ==
    /\ Idle
    /\ self # NoTree
    /\ \E leaf_index \in Indexes :
          /\ op' = "get_proof"
          /\ arg' = [NoArg EXCEPT !.leaf_index = leaf_index]
          /\ ret' = get_proof(self, leaf_index)
    /\ UNCHANGED self
    /\ UNCHANGED api

GetProofHex ==
    /\ Idle
    /\ self # NoTree
    /\ \E leaf_index \in Indexes :
          /\ op' = "get_proof_hex"
          /\ arg' = [NoArg EXCEPT !.leaf_index = leaf_index]
          /\ ret' = get_proof_hex(self, leaf_index)
    /\ UNCHANGED self
    /\ UNCHANGED api

VerifyProof ==
    /\ Idle
    /\ self # NoTree
    /\ \E v \in VerifyInputs(self) :
          /\ op' = "verify_proof"
          /\ arg' = [NoArg EXCEPT !.leaf_data = v[1], !.proof = v[2],
                                  !.root = v[3]]
          /\ ret' = verify_proof(self, v[1], v[2], v[3])
    /\ UNCHANGED self
    /\ UNCHANGED api

ToDict ==
    /\ Idle
    /\ self # NoTree
    /\ op' = "to_dict"
    /\ arg' = NoArg
    /\ ret' = Ok(to_dict(self))
    /\ UNCHANGED self
    /\ UNCHANGED api

CreateFraudProof ==
    /\ Idle
    /\ \E f \in FraudArgs :
          /\ op' = "create_fraud_proof"
          /\ arg' = [NoArg EXCEPT !.fraud = f]
          /\ ret' = create_fraud_proof(f)
    /\ UNCHANGED self
    /\ UNCHANGED api

VerifyFraudProof ==
    /\ Idle
    /\ \E v \in FraudVerifyInputs(self) :
          /\ op' = "verify_fraud_proof"
          /\ arg' = [NoArg EXCEPT !.leaf_data = v[1], !.hexes = v[2],
                                  !.root = v[3]]
          /\ ret' = verify_fraud_proof(v[1], v[2], v[3])
    /\ UNCHANGED self
    /\ UNCHANGED api

\* InferenceService.predict calling _generate_merkle_proof(data, fraud_score)
GenerateMerkleProof ==
    /\ Idle
    /\ \E data \in FraudArgs :
          /\ op' = "_generate_merkle_proof"
          /\ arg' = [NoArg EXCEPT !.fraud = data]
          /\ ret' = _generate_merkle_proof(data, data.fraud_score)
    /\ UNCHANGED self
    /\ UNCHANGED api

\* the caller takes the result of the pending call
Return ==
    /\ ~Idle
    /\ op' = "none"
    /\ arg' = NoArg
    /\ ret' = Ok(None)
    /\ UNCHANGED self
    /\ UNCHANGED api

(***************************************************************************)
(* The web service (ml-service/api/main.py) with its collaborators, the    *)
(* inference service and the blockchain client.  A probability is a number *)
(* of units of 10^-5.  A handler runs up to an await, the awaited          *)
(* coroutine runs, and the handler resumes; pc is the position of the one  *)
(* request being handled and calls lists, in order, the calls the handler  *)
(* has made and the returns it has got while handling it.  The features    *)
(* hash and the time stamps, which no decision of a handler reads, are     *)
(* left out of the records.                                                *)
(***************************************************************************)
\* config.CONFIDENCE_THRESHOLD, default "0.90"
CONFIDENCE_THRESHOLD == 90000

\* FraudDetector.predict_with_confidence for the class probabilities
\* (1 - fraud_score, fraud_score) of one row
predict_with_confidence(fraud_score) ==
    [prediction |-> fraud_score >= 50000,
     fraud_score |-> fraud_score,
     confidence |-> IF fraud_score >= 100000 - fraud_score
                    THEN fraud_score ELSE 100000 - fraud_score]

_calculate_risk_level(fraud_score, confidence) ==
    IF fraud_score >= 85000 /\ confidence >= 90000 THEN "critical"
    ELSE IF fraud_score >= 70000 /\ confidence >= 80000 THEN "high"
    ELSE IF fraud_score >= 50000 /\ confidence >= 70000 THEN "medium"
    ELSE "low"

\* InferenceService.predict(data), the classifier giving fraud_score for data
predict(is_ready, data, fraud_score) ==
    IF ~is_ready
    THEN Raise("RuntimeError")
    ELSE LET p == predict_with_confidence(fraud_score)
             merkle_root == _generate_merkle_proof(data, p.fraud_score)
         IN  IF merkle_root.exc # ""
             THEN merkle_root
             ELSE Ok([is_fraud |-> p.prediction,
                      fraud_score |-> p.fraud_score,
                      confidence |-> p.confidence,
                      risk_level |-> _calculate_risk_level(p.fraud_score,
                                                           p.confidence),
                      merkle_root |-> merkle_root.val])

\* the handler submitting every prediction the classifier labels as fraud
ShouldSubmit_FraudOnly(result) == result.is_fraud

\* if result['is_fraud'] and result['confidence'] >= config.CONFIDENCE_THRESHOLD
ShouldSubmit(result) ==
    result.is_fraud /\ result.confidence >= CONFIDENCE_THRESHOLD

\* the keyword arguments of blockchain.submit_fraud_prediction in predict_fraud;
\* int(x * 100) of a probability x
SubmitArgs(data, result) ==
    [campaign_id |-> data.campaign_id,
     publisher_id |-> data.publisher_id,
     fraud_score |-> result.fraud_score \div 1000,
     confidence |-> result.confidence \div 1000,
     risk_level |-> result.risk_level,
     merkle_root |-> result.merkle_root]

\* BlockchainService.submit_fraud_prediction
submit_fraud_prediction(is_connected, a) ==
    IF ~is_connected
    THEN Raise("RuntimeError")
    ELSE Ok([status |-> "pending",
             campaign_id |-> a.campaign_id,
             publisher_id |-> a.publisher_id,
             fraud_score |-> a.fraud_score,
             confidence |-> a.confidence,
             risk_level |-> a.risk_level])

FraudPredictionResponse(data, result) ==
    [campaign_id |-> data.campaign_id,
     publisher_id |-> data.publisher_id,
     is_fraud |-> result.is_fraud,
     fraud_score |-> result.fraud_score,
     confidence |-> result.confidence,
     risk_level |-> result.risk_level,
     merkle_root |-> result.merkle_root]

\* a response: the status code, and the predictions returned with a 200
Response(status_code, predictions) ==
    [status_code |-> status_code, predictions |-> predictions]

\* raise HTTPException(status_code=500, ...)
HTTPException500 == Response(500, <<>>)

\* the traffic instances of the requests
TrafficData ==
    [campaign_id : {42}, publisher_id : {"SP1ABC"}, impressions : {1000},
     clicks : {50, 51}]

\* the fraud probabilities the classifier gives: 0.03125, 0.5, 0.8734,
\* 0.89999, 0.9 and 0.95
ClassifierScores == {3125, 50000, 87340, 89999, 90000, 95000}

NoRequest == [endpoint |-> "", traffic_data |-> <<>>]

\* the local variables of a handler: the index of the traffic instance being
\* predicted, the fraud probability the classifier gave, the outcome of the
\* last inference.predict and of the submission, and the results list
NoLocals == [i |-> 0, score |-> 0, result |-> Ok(None), tx_result |-> Ok(None),
             results |-> <<>>]

NoResponse == Response(0, <<>>)

\* no request is being handled
ApiAtRest ==
    /\ pc = "idle"
    /\ request = NoRequest
    /\ locals = NoLocals
    /\ calls = <<>>
    /\ response = NoResponse

\* POST /predict arrives: predict_fraud runs up to await inference.predict
PredictFraud ==
    /\ pc = "idle"
    /\ \E data \in TrafficData :
          request' = [endpoint |-> "/predict", traffic_data |-> <<data>>]
    /\ locals' = NoLocals
    /\ calls' = << <<"predict", 0>> >>
    /\ response' = NoResponse
    /\ pc' = "in_predict"
    /\ UNCHANGED <<ready, connected>>
    /\ UNCHANGED merkle

\* POST /predict/batch arrives: predict_fraud_batch runs up to the first
\* await inference.predict, or to its return when the list is empty
PredictFraudBatch ==
    /\ pc = "idle"
    /\ \E n \in 0..MaxBatch : \E traffic_data \in [1..n -> TrafficData] :
          /\ request' = [endpoint |-> "/predict/batch",
                         traffic_data |-> traffic_data]
          /\ calls' = IF n = 0 THEN <<>> ELSE << <<"predict", 0>> >>
          /\ response' = IF n = 0 THEN Response(200, <<>>) ELSE NoResponse
          /\ pc' = IF n = 0 THEN "responded" ELSE "in_predict"
    /\ locals' = NoLocals
    /\ UNCHANGED <<ready, connected>>
    /\ UNCHANGED merkle

\* the awaited inference.predict(data.dict()) runs: it returns or raises
InferencePredict ==
    /\ pc = "in_predict"
    /\ \E fraud_score \in ClassifierScores :
          LET data == At(request.traffic_data, locals.i)
              result == predict(ready, data, fraud_score)
          IN  /\ locals' = [locals EXCEPT !.score = fraud_score,
                                          !.result = result]
              /\ calls' = Append(calls,
                                 IF result.exc = ""
                                 THEN <<"predict returned", locals.i>>
                                 ELSE <<"predict raised", locals.i>>)
    /\ pc' = "after_predict"
    /\ UNCHANGED <<ready, connected, request, response>>
    /\ UNCHANGED merkle

\* predict_fraud resumes with the outcome of inference.predict: the except
\* clause; or the call of blockchain.submit_fraud_prediction, up to its await;
\* or the return of the response
PredictFraudResume ==
    /\ pc = "after_predict"
    /\ request.endpoint = "/predict"
    /\ LET data == At(request.traffic_data, 0)
           result == locals.result
       IN  IF result.exc # ""
           THEN /\ response' = HTTPException500
                /\ pc' = "responded"
                /\ UNCHANGED calls
           ELSE IF ShouldSubmit(result.val)
           THEN /\ calls' = Append(calls, <<"submit", SubmitArgs(data, result.val)>>)
                /\ pc' = "in_submit"
                /\ UNCHANGED response
           ELSE /\ response' = Response(200, <<FraudPredictionResponse(data, result.val)>>)
                /\ pc' = "responded"
                /\ UNCHANGED calls
    /\ UNCHANGED <<ready, connected, request, locals>>
    /\ UNCHANGED merkle

\* the awaited blockchain.submit_fraud_prediction(...) runs
SubmitFraudPrediction ==
    /\ pc = "in_submit"
    /\ LET tx_result == submit_fraud_prediction(connected, calls[Len(calls)][2])
       IN  /\ locals' = [locals EXCEPT !.tx_result = tx_result]
           /\ calls' = Append(calls,
                              IF tx_result.exc = ""
                              THEN <<"submit returned", 0>>
                              ELSE <<"submit raised", 0>>)
    /\ pc' = "after_submit"
    /\ UNCHANGED <<ready, connected, request, response>>
    /\ UNCHANGED merkle

\* predict_fraud resumes with the outcome of the submission
PredictFraudFinish ==
    /\ pc = "after_submit"
    /\ response' = IF locals.tx_result.exc # ""
                   THEN HTTPException500
                   ELSE Response(200, <<FraudPredictionResponse(
                                          At(request.traffic_data, 0),
                                          locals.result.val)>>)
    /\ pc' = "responded"
    /\ UNCHANGED <<ready, connected, request, locals, calls>>
    /\ UNCHANGED merkle

\* predict_fraud_batch resumes with the outcome of inference.predict: the
\* except clause; or results.append and the next turn of the loop, up to its
\* await; or return results
PredictFraudBatchResume ==
    /\ pc = "after_predict"
    /\ request.endpoint = "/predict/batch"
    /\ LET data == At(request.traffic_data, locals.i)
           result == locals.result
       IN  IF result.exc # ""
           THEN /\ response' = HTTPException500
                /\ pc' = "responded"
                /\ UNCHANGED <<locals, calls>>
           ELSE LET results == Append(locals.results,
                                      FraudPredictionResponse(data, result.val))
                IN  /\ locals' = [locals EXCEPT !.results = results,
                                                !.i = locals.i + 1]
                    /\ IF locals.i + 1 < Len(request.traffic_data)
                       THEN /\ calls' = Append(calls, <<"predict", locals.i + 1>>)
                            /\ pc' = "in_predict"
                            /\ UNCHANGED response
                       ELSE /\ response' = Response(200, results)
                            /\ pc' = "responded"
                            /\ UNCHANGED calls
    /\ UNCHANGED <<ready, connected, request>>
    /\ UNCHANGED merkle

\* the response has been sent: the service waits for the next request
Respond ==
    /\ pc = "responded"
    /\ pc' = "idle"
    /\ request' = NoRequest
    /\ locals' = NoLocals
    /\ calls' = <<>>
    /\ response' = NoResponse
    /\ UNCHANGED <<ready, connected>>
    /\ UNCHANGED merkle

\* no MerkleTree constructed, no call pending
MerkleInit ==
    /\ self = NoTree
    /\ op = "none"
    /\ arg = NoArg
    /\ ret = Ok(None)

\* the library used on its own, beside a service that started with a trained
\* model and a connection and handles no request
Init ==
    /\ MerkleInit
    /\ ready = TRUE
    /\ connected = TRUE
    /\ ApiAtRest

Next ==
    \/ Build
    \/ GetRoot
    \/ GetProof
    \/ GetProofHex
    \/ VerifyProof
    \/ ToDict
    \/ CreateFraudProof
    \/ VerifyFraudProof
    \/ GenerateMerkleProof
    \/ Return

Spec == Init /\ [][Next]_vars

\* the service after startup: the loaded model is trained or not, the
\* connection was initialized or not; no MerkleTree object is held between
\* requests
InitApi ==
    /\ MerkleInit
    /\ ready \in BOOLEAN
    /\ connected \in BOOLEAN
    /\ ApiAtRest

NextApi ==
    \/ PredictFraud
    \/ PredictFraudBatch
    \/ InferencePredict
    \/ PredictFraudResume
    \/ SubmitFraudPrediction
    \/ PredictFraudFinish
    \/ PredictFraudBatchResume
    \/ Respond

SpecApi == InitApi /\ [][NextApi]_vars

(***************************************************************************)
(* Properties.                                                             *)
(***************************************************************************)
\* the valid leaf indexes of the constructed tree
ValidIndexes == 0..(Len(self.leaves) - 1)

\* the root argument is omitted or is the tree's own root
OwnRoot == arg.root \in {None, self.root}

\* C1: proof completeness. Whenever verify_proof is called on a tree with the
\* leaf at a valid index i, the proof get_proof(i) and the tree's root (given,
\* or omitted), it returns true.
C1_ProofCompleteness ==
    (/\ op = "verify_proof"
     /\ OwnRoot
     /\ \E i \in ValidIndexes :
           /\ arg.leaf_data = At(self.leaves, i)
           /\ get_proof(self, i) = Ok(arg.proof))
    => ret = Ok(TRUE)

\* the last leaf of a three-leaf tree (paired with itself) verified with the
\* root omitted
C1_Witness ==
    /\ op = "verify_proof"
    /\ Len(self.leaves) = 3
    /\ arg.leaf_data = At(self.leaves, 2)
    /\ get_proof(self, 2) = Ok(arg.proof)
    /\ arg.root = None
    /\ ret = Ok(TRUE)

\* C2: fraud-proof round trip. Whenever verify_fraud_proof is called with the
\* root and the proof that create_fraud_proof returns for some arguments and
\* with the leaf "fraud_score:<score to 4 decimals>" of those arguments, it
\* returns true.
C2_FraudRoundTrip ==
    (/\ op = "verify_fraud_proof"
     /\ \E f \in FraudArgs :
           /\ create_fraud_proof(f) = Ok(<<arg.root, arg.hexes>>)
           /\ arg.leaf_data = FraudScoreLeaf(f.fraud_score))
    => ret = Ok(TRUE)

\* C3: soundness on the leaf. Whenever verify_proof is called with the proof
\* get_proof(i) of a valid index i and the tree's root, it returns true if and
\* only if the leaf given is the leaf at index i.
C3_LeafSoundness ==
    op = "verify_proof" /\ OwnRoot
    => \A i \in ValidIndexes :
          get_proof(self, i) = Ok(arg.proof)
          => /\ ret.exc = ""
             /\ ret.val = (arg.leaf_data = At(self.leaves, i))

\* another leaf value in the place of leaf 1 is rejected
C3_Witness ==
    /\ op = "verify_proof"
    /\ OwnRoot
    /\ Len(self.leaves) >= 2
    /\ get_proof(self, 1) = Ok(arg.proof)
    /\ arg.leaf_data # At(self.leaves, 1)
    /\ ret = Ok(FALSE)

\* q is p with the hash of entry k, and nothing else, replaced
TamperedAt(p, q, k) ==
    /\ Len(q) = Len(p)
    /\ k \in 1..Len(p)
    /\ q[k][1] # p[k][1]
    /\ q[k][2] = p[k][2]
    /\ \A j \in 1..Len(p) : j # k => q[j] = p[j]

\* C4: tamper sensitivity on sibling hashes. Whenever verify_proof is called
\* with the leaf at a valid index i, the tree's root and get_proof(i) with the
\* hash of one single entry replaced by another digest, it returns false.
C4_SiblingTamper ==
    op = "verify_proof" /\ OwnRoot
    => \A i \in ValidIndexes :
          (/\ arg.leaf_data = At(self.leaves, i)
           /\ \E k \in 1..Len(arg.proof) :
                 TamperedAt(get_proof(self, i).val, arg.proof, k))
          => ret = Ok(FALSE)

\* the self-paired entry of the last leaf of a three-leaf tree is replaced
C4_Witness ==
    /\ op = "verify_proof"
    /\ OwnRoot
    /\ Len(self.leaves) = 3
    /\ arg.leaf_data = At(self.leaves, 2)
    /\ TamperedAt(get_proof(self, 2).val, arg.proof, 1)
    /\ ret = Ok(FALSE)

\* C5 as stated: verify_fraud_proof called with an empty proof fails with
\* ValueError (a zero-leaf scratch tree) and returns no boolean.
C5_EmptyProofRaises ==
    op = "verify_fraud_proof" /\ arg.hexes = <<>>
    => ret.exc = "ValueError"

\* C5, amended: verify_fraud_proof called with an empty proof builds a scratch
\* tree of one leaf, raises nothing and returns whether the hash of the leaf
\* given is the expected root.
C5_EmptyProofCompares ==
    op = "verify_fraud_proof" /\ arg.hexes = <<>>
    => /\ Len(DummyLeaves(arg.hexes)) = 1
       /\ ret = Ok(_hash(arg.leaf_data) = arg.root)

\* an empty proof accepted against the plain hash of the leaf
C5_Witness ==
    /\ op = "verify_fraud_proof"
    /\ arg.hexes = <<>>
    /\ arg.root = _hash(arg.leaf_data)
    /\ ret = Ok(TRUE)

\* C6: producer/verifier agreement. The root _generate_merkle_proof publishes
\* for a prediction is the root create_fraud_proof returns for the same
\* campaign id, publisher id, impressions, clicks and fraud score (at some
\* timestamp).
C6_ProducerAgrees ==
    op = "_generate_merkle_proof"
    => \E ts \in {f.timestamp : f \in FraudArgs} :
          /\ ret.exc = ""
          /\ create_fraud_proof([arg.fraud EXCEPT !.timestamp = ts]).val[1]
                = ret.val

\* the hash a proof accumulates from a leaf, a side other than 'left' taken
\* as 'right'
RECURSIVE Accumulated(_, _)
Accumulated(h, proof) ==
    IF proof = <<>>
    THEN h
    ELSE LET e == Head(proof)
         IN  Accumulated(IF e[2] = "left" THEN _hash(e[1] \o h)
                                          ELSE _hash(h \o e[1]),
                         Tail(proof))

\* C7: verify_proof and verify_fraud_proof (on a non-empty list of hashes)
\* raise nothing on any proof: they return a boolean, which is true exactly
\* when the accumulated hash is the root, a side other than 'left' being
\* applied as 'right'.
C7_VerifyNeverRaises ==
    /\ op = "verify_proof"
       => /\ ret.exc = ""
          /\ ret.val \in BOOLEAN
          /\ ret.val = (Accumulated(_hash(arg.leaf_data), arg.proof)
                          = IF arg.root = None THEN self.root ELSE arg.root)
    /\ op = "verify_fraud_proof" /\ arg.hexes # <<>>
       => /\ ret.exc = ""
          /\ ret.val \in BOOLEAN
          /\ ret.val = (Accumulated(_hash(arg.leaf_data),
                                    ProofTuples(arg.hexes)) = arg.root)

\* a proof carrying a side that is neither 'left' nor 'right' is accepted
C7_Witness ==
    /\ op = "verify_proof"
    /\ \E k \in 1..Len(arg.proof) : arg.proof[k][2] = "up"
    /\ ret = Ok(TRUE)

\* C8: constructing a MerkleTree from an empty list raises ValueError and
\* leaves no tree; constructing it from a non-empty list succeeds and keeps
\* the leaves.
C8_EmptyBuildFails ==
    op = "MerkleTree"
    => /\ arg.leaves = <<>> => ret.exc = "ValueError" /\ self = NoTree
       /\ arg.leaves # <<>>
          => /\ ret.exc = ""
             /\ self # NoTree
             /\ self.leaves = arg.leaves
             /\ self.root # None

\* the constructor has refused the empty list
C8_Witness ==
    /\ op = "MerkleTree"
    /\ arg.leaves = <<>>
    /\ ret.exc = "ValueError"
    /\ self = NoTree

\* C9: in every step that calls get_proof or get_proof_hex on an n-leaf tree,
\* the call raises ValueError exactly when the index is below 0 or at least
\* n, it raises nothing else, for an index in [0, n) it returns a proof with
\* one entry per level below the root, and a failed call leaves the tree as
\* it was.
C9_IndexOutOfRange ==
    [][op' \in {"get_proof", "get_proof_hex"}
       => LET n == Len(self.leaves)
              i == arg'.leaf_index
          IN  /\ ret'.exc \in {"", "ValueError"}
              /\ ret'.exc = "ValueError" <=> (i < 0 \/ i >= n)
              /\ ret'.exc = "" => Len(ret'.val) = Len(self.tree) - 1
              /\ ret'.exc # "" => self' = self]_vars

\* get_proof_hex refused the index n on an n-leaf tree
C9_Witness ==
    /\ op = "get_proof_hex"
    /\ self # NoTree
    /\ arg.leaf_index = Len(self.leaves)
    /\ ret.exc = "ValueError"

\* C10: create_fraud_proof returns the root of the tree over the six leaves
\* campaign, publisher, impressions, clicks, fraud_score, timestamp, and the
\* hashes of the three entries of get_proof(4) of that tree, in order.
C10_FraudProofShape ==
    op = "create_fraud_proof"
    => LET f == arg.fraud
           leaves == FraudLeaves(f)
           t == MerkleTree(leaves).val
           proof == get_proof(t, 4).val
       IN  /\ Len(leaves) = 6
           /\ At(leaves, 4) = FraudScoreLeaf(f.fraud_score)
           /\ At(leaves, 5) = <<Str("timestamp:"), IntText(f.timestamp)>>
           /\ ret.exc = ""
           /\ ret.val[1] = t.root
           /\ Len(ret.val[2]) = 3
           /\ \A k \in 1..3 : ret.val[2][k] = proof[k][1]

\* create_fraud_proof has returned for the score 0.8734 at time 1700000000
C10_Witness ==
    /\ op = "create_fraud_proof"
    /\ arg.fraud.fraud_score = 87340
    /\ arg.fraud.timestamp = 1700000000
    /\ ret.exc = ""
    /\ Len(ret.val[2]) = 3

\* C11: perturbed score. Whenever verify_fraud_proof is called with the root
\* and the proof that create_fraud_proof returns for a score s, and with the
\* fraud_score leaf of a score whose 4-decimal rendering differs from that of
\* s, it returns false.
C11_PerturbedScoreRejected ==
    op = "verify_fraud_proof"
    => \A f \in FraudArgs, s2 \in Scores :
          (/\ create_fraud_proof(f) = Ok(<<arg.root, arg.hexes>>)
           /\ arg.leaf_data = FraudScoreLeaf(s2)
           /\ Format4(s2) # Format4(f.fraud_score))
          => ret = Ok(FALSE)

\* the proof made for 0.8734 checked against the leaf of 0.8735
C11_Witness ==
    /\ op = "verify_fraud_proof"
    /\ \E f \in FraudArgs :
          /\ f.fraud_score = 87340
          /\ create_fraud_proof(f) = Ok(<<arg.root, arg.hexes>>)
    /\ arg.leaf_data = FraudScoreLeaf(87350)
    /\ FraudScoreLeaf(87350) # FraudScoreLeaf(87340)
    /\ ret = Ok(FALSE)

\* C12: tree structure. In every constructed tree, level 0 is the hashes of
\* the leaves in input order; each further level has ceil(len/2) nodes, node
\* j hashing the texts of nodes 2j and 2j+1 of the level below, or of node 2j
\* twice when 2j+1 does not exist; only the last level has length 1, and the
\* root is its single node.
C12_TreeStructure ==
    self # NoTree
    => LET n == Len(self.leaves)
           levels == self.tree
           depth == Len(levels)
       IN  /\ n >= 1
           /\ depth >= 1
           /\ levels[1] = [k \in 1..n |-> _hash(self.leaves[k])]
           /\ self.leaf_hashes = levels[1]
           /\ \A k \in 1..(depth - 1) :
                 LET below == levels[k]
                     above == levels[k + 1]
                 IN  /\ Len(below) > 1
                     /\ Len(above) = (Len(below) + 1) \div 2
                     /\ \A j \in 0..(Len(above) - 1) :
                           above[j + 1] =
                              IF 2 * j + 1 < Len(below)
                              THEN _hash(below[2 * j + 1] \o below[2 * j + 2])
                              ELSE _hash(below[2 * j + 1] \o below[2 * j + 1])
           /\ Len(levels[depth]) = 1
           /\ self.root = levels[depth][1]
           /\ get_root(self) = levels[depth][1]

\* a three-leaf tree: level 1 = [H(hA + hB), H(hC + hC)], root = H of both
C12_Witness ==
    /\ op = "MerkleTree"
    /\ Len(self.leaves) = 3
    /\ Len(self.tree) = 3
    /\ LET hA == _hash(self.leaves[1])
           hB == _hash(self.leaves[2])
           hC == _hash(self.leaves[3])
       IN  /\ self.tree[2] = <<_hash(hA \o hB), _hash(hC \o hC)>>
           /\ self.root = _hash(_hash(hA \o hB) \o _hash(hC \o hC))

\* C13: for every tree constructed from an odd number n >= 3 of leaves, the
\* tree constructed from the same leaves followed by one more copy of the
\* last leaf has the same root (so [x, y, z] and [x, y, z, z] agree).
C13_OddAppendSameRoot ==
    (/\ self # NoTree
     /\ Len(self.leaves) >= 3
     /\ Len(self.leaves) % 2 = 1)
    => LET last == self.leaves[Len(self.leaves)]
           padded == MerkleTree(Append(self.leaves, last))
       IN  /\ padded.exc = ""
           /\ get_root(padded.val) = get_root(self)

\* the tree of [x, y, z] has been constructed and asked for its root
C13_Witness ==
    /\ op = "get_root"
    /\ self.leaves = << <<Str("x")>>, <<Str("y")>>, <<Str("z")>> >>
    /\ ret = Ok(MerkleTree(<< <<Str("x")>>, <<Str("y")>>, <<Str("z")>>,
                              <<Str("z")>> >>).val.root)

\* C14 as stated: there are leaves A, B, C for which the tree of [A, B, C] and
\* the tree of [A, B, C, C] have different roots (looked for, once a tree of
\* three leaves is constructed, among all the three-leaf inputs).
C14_PaddedRootsDiffer ==
    (self # NoTree /\ Len(self.leaves) = 3)
    => \E l \in [1..3 -> LeafTexts] \cup {self.leaves} :
          MerkleTree(l).val.root # MerkleTree(Append(l, l[3])).val.root

\* C14, amended: for all leaves A, B, C the tree of [A, B, C, C] has the same
\* root and the same levels above level 0 as the tree of [A, B, C]; the two
\* trees differ in level 0 alone (four leaf hashes against three).
C14_PaddedSameRoot ==
    (/\ self # NoTree
     /\ Len(self.leaves) = 4
     /\ self.leaves[4] = self.leaves[3])
    => LET t3 == MerkleTree(SubSeq(self.leaves, 1, 3)).val
       IN  /\ self.root = t3.root
           /\ Len(self.tree) = Len(t3.tree)
           /\ \A k \in 2..Len(self.tree) : self.tree[k] = t3.tree[k]
           /\ self.tree[1] = Append(t3.tree[1], t3.tree[1][3])
           /\ self.tree[1] # t3.tree[1]

\* the padded tree [x, y, z, z] has been constructed
C14_Witness ==
    /\ op = "MerkleTree"
    /\ self.leaves = << <<Str("x")>>, <<Str("y")>>, <<Str("z")>>, <<Str("z")>> >>
    /\ self.root = MerkleTree(SubSeq(self.leaves, 1, 3)).val.root

\* the calls that query a constructed tree
Queries == {"get_root", "get_proof", "get_proof_hex", "verify_proof", "to_dict"}

\* what the query o with the arguments a returns on the tree t
QueryResult(t, o, a) ==
    CASE o = "get_root" -> Ok(get_root(t))
      [] o = "get_proof" -> get_proof(t, a.leaf_index)
      [] o = "get_proof_hex" -> get_proof_hex(t, a.leaf_index)
      [] o = "verify_proof" -> verify_proof(t, a.leaf_data, a.proof, a.root)
      [] o = "to_dict" -> Ok(to_dict(t))

\* C16: queries are pure. Every step that calls get_root, get_proof,
\* get_proof_hex, verify_proof or to_dict, failing or not and after any calls
\* before it, leaves the tree's leaves, leaf hashes, levels and root as they
\* were, which is as the constructor made them from the leaves, and returns
\* what the call returns on the tree freshly constructed from those leaves.
C16_QueriesPure ==
    [][op' \in Queries
       => LET fresh == MerkleTree(self.leaves)
          IN  /\ self'.leaves = self.leaves
              /\ self'.leaf_hashes = self.leaf_hashes
              /\ self'.tree = self.tree
              /\ self'.root = self.root
              /\ fresh = Ok(self')
              /\ ret' = QueryResult(fresh.val, op', arg')]_vars

\* a failed get_proof_hex on a three-leaf tree that is still as constructed
C16_Witness ==
    /\ op = "get_proof_hex"
    /\ ret.exc = "ValueError"
    /\ Len(self.leaves) = 3
    /\ MerkleTree(self.leaves) = Ok(self)

RECURSIVE Pow2(_)
Pow2(k) == IF k = 0 THEN 1 ELSE 2 * Pow2(k - 1)

\* the path index at level k (counted from 0) of the leaf index i
PathIndex(i, k) == i \div Pow2(k)

\* C17: path rule of get_proof. A proof returned for leaf_index has one entry
\* per level below the root, in leaf-to-root order; with the path index
\* leaf_index div 2^k at level k, the entry is (level[index - 1], 'left') for
\* an odd path index, (level[index + 1], 'right') for an even one with
\* index + 1 inside the level, and (level[index], 'right'), the path node's
\* own hash, otherwise.
C17_PathRule ==
    (op = "get_proof" /\ ret.exc = "")
    => /\ Len(ret.val) = Len(self.tree) - 1
       /\ \A k \in 0..(Len(ret.val) - 1) :
             LET level == self.tree[k + 1]
                 index == PathIndex(arg.leaf_index, k)
             IN  ret.val[k + 1] =
                    IF index % 2 = 1
                    THEN <<level[index], "left">>
                    ELSE IF index + 1 < Len(level)
                         THEN <<level[index + 2], "right">>
                         ELSE <<level[index + 1], "right">>

\* the proof of the last leaf of a three-leaf tree: its own hash tagged
\* 'right', then level-1 node 0 tagged 'left'
C17_Witness ==
    /\ op = "get_proof"
    /\ Len(self.leaves) = 3
    /\ arg.leaf_index = 2
    /\ ret = Ok(<< <<self.tree[1][3], "right">>, <<self.tree[2][1], "left">> >>)

\* ceil(log2(n)) for n >= 1: the least d with 2^d >= n
CeilLog2(n) == CHOOSE d \in 0..n : Pow2(d) >= n /\ \A e \in 0..(d - 1) : Pow2(e) < n

\* C18: proof length. A proof get_proof or get_proof_hex returns for an n-leaf
\* tree has exactly (number of levels - 1) = ceil(log2(n)) entries, as has the
\* proof of every other valid index of the tree, and every side tag of it is
\* 'left' or 'right'.
C18_ProofLength ==
    (op \in {"get_proof", "get_proof_hex"} /\ ret.exc = "")
    => /\ Len(ret.val) = Len(self.tree) - 1
       /\ Len(ret.val) = CeilLog2(Len(self.leaves))
       /\ \A i \in ValidIndexes : Len(get_proof(self, i).val) = Len(ret.val)
       /\ op = "get_proof"
          => \A k \in 1..Len(ret.val) : ret.val[k][2] \in {"left", "right"}

\* a two-entry proof of a three-leaf tree
C18_Witness ==
    /\ op = "get_proof"
    /\ Len(self.leaves) = 3
    /\ ret.exc = ""
    /\ Len(ret.val) = 2
    /\ CeilLog2(3) = 2

\* hashes paired with sides left, right, left, ... from position 0
Alternating(hexes) ==
    [k \in 1..Len(hexes) |-> <<hexes[k], IF k % 2 = 1 THEN "left" ELSE "right">>]

\* C19: verify_fraud_proof(leaf, hashes, expected_root) returns exactly what
\* verify_proof(leaf, [(hashes[k], 'left' if k is even else 'right')],
\* expected_root) returns, on the scratch tree of len(hashes) + 1 empty leaves
\* as on any other tree: the tree at hand, or a tree of one other leaf.
C19_FraudVerifyDelegates ==
    op = "verify_fraud_proof"
    => LET tuples == Alternating(arg.hexes)
           scratch == MerkleTree([k \in 1..(Len(arg.hexes) + 1) |-> EmptyStr])
           other == MerkleTree(<< <<Str("x")>> >>)
       IN  /\ arg.root # None
           /\ scratch.exc = ""
           /\ Len(scratch.val.tree) >= 1
           /\ ret = verify_proof(scratch.val, arg.leaf_data, tuples, arg.root)
           /\ ret = verify_proof(other.val, arg.leaf_data, tuples, arg.root)
           /\ self # NoTree
              => ret = verify_proof(self, arg.leaf_data, tuples, arg.root)
           /\ ret = Ok(Accumulated(_hash(arg.leaf_data), tuples) = arg.root)

\* a one-hash proof whose true side is 'left' is accepted
C19_Witness ==
    /\ op = "verify_fraud_proof"
    /\ Len(self.leaves) = 2
    /\ arg.leaf_data = self.leaves[2]
    /\ arg.hexes = get_proof_hex(self, 1).val
    /\ arg.root = self.root
    /\ ret = Ok(TRUE)

\* the side the verifier rebuilds at position k (counted from 1)
RebuiltSide(k) == IF k % 2 = 1 THEN "left" ELSE "right"

\* C20: side-reconstruction limitation. Whenever verify_fraud_proof is called
\* with the leaf at a valid index i of a tree, get_proof_hex(i) and the tree's
\* root, it returns true if the sides of get_proof(i) are left, right, left,
\* ... from the first entry on, and false if at some position the true side
\* differs from that pattern and the sibling hash recorded there is not the
\* path node's own hash.
C20_SideReconstruction ==
    (op = "verify_fraud_proof" /\ self # NoTree /\ arg.root = get_root(self))
    => \A i \in ValidIndexes :
          (/\ arg.leaf_data = At(self.leaves, i)
           /\ get_proof_hex(self, i) = Ok(arg.hexes))
          => LET p == get_proof(self, i).val
                 positions == 1..Len(p)
                 PathNode(k) == At(self.tree[k], PathIndex(i, k - 1))
             IN  /\ (\A k \in positions : p[k][2] = RebuiltSide(k))
                    => ret = Ok(TRUE)
                 /\ (\E k \in positions : /\ p[k][2] # RebuiltSide(k)
                                           /\ p[k][1] # PathNode(k))
                    => ret = Ok(FALSE)

\* a false negative: leaf 0 of a two-leaf tree of different leaves, whose
\* sibling is on the right, is rejected
C20_Witness ==
    /\ op = "verify_fraud_proof"
    /\ Len(self.leaves) = 2
    /\ self.leaves[1] # self.leaves[2]
    /\ arg.leaf_data = self.leaves[1]
    /\ get_proof_hex(self, 0) = Ok(arg.hexes)
    /\ get_proof(self, 0).val[1][2] = "right"
    /\ arg.root = self.root
    /\ ret = Ok(FALSE)

\* C21: no domain separation. A pair hash is the leaf hash of the text of the
\* left digest immediately followed by the text of the right digest; so the
\* tree of the single leaf hash(A) + hash(B) has the root of the tree [A, B],
\* and whenever verify_proof is called with the digest pair above a valid
\* index i as leaf_data, with get_proof(i) less its first entry and with the
\* tree's root, it returns true.
C21_NoDomainSeparation ==
    /\ \A a, b \in LeafTexts :
          /\ self.leaves = << _hash(a) \o _hash(b) >>
             => /\ Len(self.tree) = 1
                /\ get_root(self) = get_root(MerkleTree(<<a, b>>).val)
          /\ self.leaves = <<a, b>>
             => get_root(self) = get_root(MerkleTree(<< _hash(a) \o _hash(b) >>).val)
    /\ (op = "verify_proof" /\ OwnRoot /\ Len(self.leaves) >= 2)
       => \A i \in ValidIndexes :
             (/\ arg.leaf_data = PairText(self, i)
              /\ arg.proof = Tail(get_proof(self, i).val))
             => ret = Ok(TRUE)

\* the digest pair above leaf 2 of a four-leaf tree of different leaves is
\* accepted as a leaf with the one-entry rest of the proof of leaf 2
C21_Witness ==
    /\ op = "verify_proof"
    /\ Len(self.leaves) = 4
    /\ self.leaves[3] # self.leaves[4]
    /\ arg.leaf_data = _hash(self.leaves[3]) \o _hash(self.leaves[4])
    /\ arg.proof = << <<self.tree[2][1], "left">> >>
    /\ arg.root = self.root
    /\ ret = Ok(TRUE)

\* the sides of the path of leaf 4 in a six-leaf tree
FraudTrueSides == <<"right", "right", "left">>

\* C22: the true path of the fraud_score leaf. The three hashes
\* create_fraud_proof returns are the hash of the timestamp leaf, the level-1
\* path node itself (the lone third node, paired with itself) and node 0 of
\* level 2, and get_proof tags them right, right, left; and whenever
\* verify_proof is called with the fraud_score leaf of a create_fraud_proof
\* call, that call's three hashes tagged right, right, left and that call's
\* root, it returns true.
C22_FraudTruePath ==
    /\ (op = "create_fraud_proof" /\ ret.exc = "")
       => LET t == MerkleTree(FraudLeaves(arg.fraud)).val
              hexes == ret.val[2]
          IN  /\ Len(t.leaves) = 6
              /\ Len(t.tree) = 4
              /\ Len(t.tree[2]) = 3
              /\ ret.val[1] = get_root(t)
              /\ hexes = << _hash(At(t.leaves, 5)), At(t.tree[2], 2),
                            At(t.tree[3], 0) >>
              /\ At(t.tree[2], 2) = _hash_pair(_hash(At(t.leaves, 4)), hexes[1])
              /\ get_proof(t, 4)
                   = Ok([k \in 1..3 |-> <<hexes[k], FraudTrueSides[k]>>])
    /\ op = "verify_proof"
       => \A f \in FraudArgs :
             LET out == create_fraud_proof(f).val
             IN  (/\ arg.leaf_data = FraudScoreLeaf(f.fraud_score)
                  /\ arg.root = out[1]
                  /\ arg.proof = [k \in 1..3 |-> <<out[2][k], FraudTrueSides[k]>>])
                 => ret = Ok(TRUE)

\* verify_proof has accepted a fraud_score leaf with the three hashes of
\* create_fraud_proof under their true sides
C22_Witness ==
    /\ op = "verify_proof"
    /\ \E f \in FraudArgs :
          /\ arg.leaf_data = FraudScoreLeaf(f.fraud_score)
          /\ create_fraud_proof(f) = Ok(<<arg.root, [k \in 1..3 |-> arg.proof[k][1]]>>)
    /\ Len(arg.proof) = 3
    /\ [k \in 1..3 |-> arg.proof[k][2]] = <<"right", "right", "left">>
    /\ ret = Ok(TRUE)

\* the leaf sequences as long as the constructed one and different from it
SameLengthOthers ==
    { other \in LeafSeqs \cup DigestPairSeqs :
        Len(other) = Len(self.leaves) /\ other # self.leaves }

\* C23: binding for equal length. When a tree has been constructed from a
\* leaf sequence, the tree of every other leaf sequence of the same length,
\* the same leaves in another order included, has a different root.
C23_EqualLengthBinding ==
    (op = "MerkleTree" /\ ret.exc = "")
    => \A other \in SameLengthOthers :
          get_root(MerkleTree(other).val) # get_root(self)

\* a three-leaf tree and the tree of its leaves in reverse order, which
\* differ in the self-paired last leaf, have different roots
C23_Witness ==
    /\ op = "MerkleTree"
    /\ Len(self.leaves) = 3
    /\ self.leaves[1] # self.leaves[3]
    /\ <<self.leaves[3], self.leaves[2], self.leaves[1]>> \in SameLengthOthers
    /\ get_root(MerkleTree(<<self.leaves[3], self.leaves[2], self.leaves[1]>>).val)
         # get_root(self)

\* C24: single-leaf tree. A tree constructed from exactly one leaf has exactly
\* one level, holding the hash of that leaf, which is the root (no pair hash,
\* no self-pairing); get_proof(0) returns the empty proof, get_proof_hex(0)
\* the empty list; and verify_proof with the leaf, the empty proof and the
\* root (given, or omitted) returns true.
C24_SingleLeaf ==
    Len(self.leaves) = 1
    => /\ self.tree = << <<_hash(self.leaves[1])>> >>
       /\ get_root(self) = _hash(self.leaves[1])
       /\ get_root(self) # _hash_pair(_hash(self.leaves[1]), _hash(self.leaves[1]))
       /\ (op = "get_proof" /\ arg.leaf_index = 0) => ret = Ok(<<>>)
       /\ (op = "get_proof_hex" /\ arg.leaf_index = 0) => ret = Ok(<<>>)
       /\ (op = "to_dict") => ret.val.tree_depth = 1
       /\ (/\ op = "verify_proof"
           /\ OwnRoot
           /\ arg.leaf_data = self.leaves[1]
           /\ arg.proof = <<>>)
          => ret = Ok(TRUE)

\* the leaf of a one-leaf tree has been accepted with the empty proof against
\* the root given explicitly
C24_Witness ==
    /\ op = "verify_proof"
    /\ Len(self.leaves) = 1
    /\ arg.leaf_data = self.leaves[1]
    /\ arg.proof = <<>>
    /\ get_proof(self, 0) = Ok(<<>>)
    /\ arg.root = _hash(self.leaves[1])
    /\ ret = Ok(TRUE)

\* the positions in calls of the calls of submit_fraud_prediction
SubmitPositions == { k \in 1..Len(calls) : calls[k][1] = "submit" }

\* C25: while one /predict request is handled, submit_fraud_prediction is
\* called at most once, and only directly after inference.predict has
\* returned; once the handler is past its test, it has called it exactly when
\* the prediction has is_fraud true and a confidence of at least
\* CONFIDENCE_THRESHOLD, with the merkle_root of that prediction, the root
\* _generate_merkle_proof gives for the request and the classifier's score;
\* when the submission has raised, the response is HTTP 500 with no
\* prediction; and while a /predict/batch request is handled no submission is
\* ever made.
C25_SubmitOnConfidentFraud ==
    /\ Cardinality(SubmitPositions) <= 1
    /\ \A k \in SubmitPositions :
          /\ k > 1
          /\ calls[k - 1][1] = "predict returned"
          /\ request.endpoint = "/predict"
          /\ locals.result.exc = ""
          /\ calls[k][2].merkle_root = locals.result.val.merkle_root
          /\ calls[k][2].merkle_root
               = _generate_merkle_proof(At(request.traffic_data, 0),
                                        locals.score).val
          /\ calls[k][2].campaign_id = At(request.traffic_data, 0).campaign_id
          /\ calls[k][2].publisher_id = At(request.traffic_data, 0).publisher_id
    /\ (request.endpoint = "/predict"
        /\ pc \in {"in_submit", "after_submit", "responded"})
       => (SubmitPositions # {}
           <=> /\ locals.result.exc = ""
               /\ locals.result.val.is_fraud
               /\ locals.result.val.confidence >= CONFIDENCE_THRESHOLD)
    /\ (pc = "responded" /\ \E k \in 1..Len(calls) : calls[k][1] = "submit raised")
       => /\ response.status_code = 500
          /\ response.predictions = <<>>
    /\ request.endpoint = "/predict/batch" => SubmitPositions = {}

\* a /predict request answered with a prediction after exactly one
\* submission, made after inference.predict returned and carrying the
\* prediction's Merkle root
C25_Witness ==
    /\ pc = "responded"
    /\ request.endpoint = "/predict"
    /\ Len(calls) = 4
    /\ calls[1][1] = "predict"
    /\ calls[2][1] = "predict returned"
    /\ calls[3][1] = "submit"
    /\ calls[4][1] = "submit returned"
    /\ response.status_code = 200
    /\ response.predictions[1].is_fraud
    /\ response.predictions[1].confidence >= CONFIDENCE_THRESHOLD
    /\ calls[3][2].merkle_root = response.predictions[1].merkle_root

=============================================================================
